---------------------------- MODULE Spec2Model ----------------------------
(***************************************************************************)
(* A model of the MinCED report parser (src/src/lib.rs).                   *)
(*                                                                         *)
(* Text is a sequence of one-character strings; a cursor is the 1-based    *)
(* index of the next unread character (Len(s)+1 at end of input).  The nom *)
(* combinators the parser is built from are operators over (s, p) that     *)
(* return the cursor after the match, or NoMatch for nom's Err::Error.     *)
(* The grammar functions return records [kind, pos, val] with kind "Ok",   *)
(* "Error" (Err::Error) or "Panic" (an unwrap() or an arithmetic overflow  *)
(* check aborting the call).                                               *)
(***************************************************************************)
EXTENDS Integers, Sequences, FiniteSets, TLC

VARIABLES
    input,            \* the text handed to the function under execution
    overflow_checks,  \* TRUE: arithmetic overflow panics; FALSE: it wraps
    given,            \* what the caller built `input` from
    pc,               \* where the execution stands
    pos,              \* parse: cursor of the innermost running loop
    contigs,          \* parse: accumulator of many0(parse_contig_arrays)
    contig_start,     \* parse: cursor at which the current contig began
    acc,              \* parse: (accession, bp) of the current contig
    arrays,           \* parse: accumulator of many1(parse_array)
    array_start,      \* parse: cursor at which the current array began
    hdr,              \* parse: (order, start, end) of the current array
    rows,             \* parse: accumulator of many1(parse_repeat_spacer_line)
    iters,            \* parse: successful loop iterations so far
    result,           \* parse: what parse returned
    out               \* a single grammar function's return value

vars == <<input, overflow_checks, given, pc, pos, contigs, contig_start, acc,
          arrays, array_start, hdr, rows, iters, result, out>>

---------------------------------------------------------------------------
(* Bounds of the model.                                                    *)

\* Width of usize in bits (64 on the usual targets), scaled down.
UsizeBits == 4
\* Contig blocks per document.
MaxContigs == 2

UsizeMax == 2 ^ UsizeBits - 1

---------------------------------------------------------------------------
(* Characters.                                                             *)

NoMatch == 0

Digits == <<"0", "1", "2", "3", "4", "5", "6", "7", "8", "9">>

IsDigit(c) == \E i \in 1..Len(Digits) : Digits[i] = c

DigitVal(c) == (CHOOSE i \in 1..Len(Digits) : Digits[i] = c) - 1

IsAlpha(c) ==
    c \in {"a", "b", "c", "d", "e", "f", "g", "h", "i", "j", "k", "l", "m",
           "n", "o", "p", "q", "r", "s", "t", "u", "v", "w", "x", "y", "z",
           "A", "B", "C", "D", "E", "F", "G", "H", "I", "J", "K", "L", "M",
           "N", "O", "P", "Q", "R", "S", "T", "U", "V", "W", "X", "Y", "Z"}

IsMultispace(c) == c \in {" ", "\t", "\r", "\n"}

\* Membership in the character classes the run combinators scan for.
InClass(c, class) ==
    CASE class = "digit" -> IsDigit(c)
      [] class = "alpha" -> IsAlpha(c)
      [] class = "multispace" -> IsMultispace(c)
      [] class = "not_line_ending" -> c \notin {"\r", "\n"}

\* The slice s[p..q) of the buffer.
Slice(s, p, q) == SubSeq(s, p, q - 1)

---------------------------------------------------------------------------
(* nom's complete-input combinators.  Inside tuple((...)) a parser runs   *)
(* on what the previous one left, and only if that one matched: a parser   *)
(* given the cursor NoMatch returns NoMatch.                               *)

\* tag(t): the literal t, exactly.
Tag(s, p, t) ==
    IF p # NoMatch /\ p + Len(t) - 1 <= Len(s) /\ Slice(s, p, p + Len(t)) = t
    THEN p + Len(t) ELSE NoMatch

\* char(c): one character.
Char(s, p, c) ==
    IF p # NoMatch /\ p <= Len(s) /\ s[p] = c THEN p + 1 ELSE NoMatch

\* End of the longest run of characters satisfying Class, starting at p.
RECURSIVE RunEnd(_, _, _)
RunEnd(s, p, class) ==
    IF p <= Len(s) /\ InClass(s[p], class) THEN RunEnd(s, p + 1, class) ELSE p

\* A run of at least one character of the class.
Run1(s, p, class) ==
    IF p # NoMatch /\ p <= Len(s) /\ InClass(s[p], class)
    THEN RunEnd(s, p + 1, class) ELSE NoMatch

\* digit1, alpha1, multispace1.
Digit1(s, p) == Run1(s, p, "digit")

Alpha1(s, p) == Run1(s, p, "alpha")

Multispace1(s, p) == Run1(s, p, "multispace")

\* line_ending: "\n" or "\r\n".
LineEnding(s, p) ==
    IF p = NoMatch THEN NoMatch
    ELSE IF p <= Len(s) /\ s[p] = "\n" THEN p + 1
    ELSE Tag(s, p, <<"\r", "\n">>)

\* not_line_ending: everything up to the next "\n" or "\r\n" (or the end of
\* input); a "\r" that is not followed by "\n" is an error.
NotLineEnding(s, p) ==
    IF p = NoMatch THEN NoMatch
    ELSE LET e == RunEnd(s, p, "not_line_ending")
         IN  IF e <= Len(s) /\ s[e] = "\r" /\ Tag(s, e, <<"\r", "\n">>) = NoMatch
             THEN NoMatch ELSE e

\* take_until(t): up to, not including, the first occurrence of t.
TakeUntil(s, p, t) ==
    IF p = NoMatch THEN NoMatch
    ELSE LET found == {q \in p..Len(s) : Tag(s, q, t) # NoMatch}
         IN  IF found = {} THEN NoMatch
             ELSE CHOOSE q \in found : \A r \in found : q <= r

---------------------------------------------------------------------------
(* usize.                                                                  *)

ParseIntError == -1

\* The digit loop of str::parse::<usize>: checked multiply and add.
RECURSIVE FromDigits(_, _, _)
FromDigits(t, i, v) ==
    IF i > Len(t) THEN v
    ELSE IF ~IsDigit(t[i]) THEN ParseIntError
    ELSE IF v * 10 + DigitVal(t[i]) > UsizeMax THEN ParseIntError
    ELSE FromDigits(t, i + 1, v * 10 + DigitVal(t[i]))

\* str::parse::<usize>(): an optional "+", then one or more digits, with the
\* value at most usize::MAX; anything else is a ParseIntError.
ParseUsize(t) ==
    LET body == IF t # <<>> /\ t[1] = "+" THEN Tail(t) ELSE t
    IN  IF body = <<>> THEN ParseIntError ELSE FromDigits(body, 1, 0)

Overflow == -1

\* USub with the decrement forgotten: the value stays 1-based.
USub_Kept(checks, a, b) == a

\* USub that stops at zero instead of panicking or wrapping.
USub_Saturating(checks, a, b) == IF a >= b THEN a - b ELSE 0

\* a - b on usize: below zero it panics under overflow checks, else wraps.
USub(checks, a, b) ==
    IF a >= b THEN a - b
    ELSE IF checks THEN Overflow
    ELSE a - b + UsizeMax + 1

\* UAdd giving the last offset covered instead of the one after it.
UAdd_Inclusive(checks, a, b) == a + b - 1

\* a + b on usize: above usize::MAX it panics under overflow checks, else wraps.
UAdd(checks, a, b) ==
    IF a + b <= UsizeMax THEN a + b
    ELSE IF checks THEN Overflow
    ELSE (a + b) % (UsizeMax + 1)

---------------------------------------------------------------------------
(* Results of the grammar functions.                                       *)

Ok(p, v) == [kind |-> "Ok", pos |-> p, val |-> v]
Error == [kind |-> "Error"]
Panic == [kind |-> "Panic"]

Matched(p) == p # NoMatch

---------------------------------------------------------------------------
(* Line primitives.                                                        *)

\* skip_one_line: pair(not_line_ending, line_ending).
skip_one_line(s, p) ==
    LET p1 == NotLineEnding(s, p)
    IN  LineEnding(s, p1)

\* skip_empty_line: line_ending.
skip_empty_line(s, p) == LineEnding(s, p)

\* parse_footer without its last blank line.
parse_footer_three_lines(s, p) ==
    LET p1 == skip_empty_line(s, p)
        p2 == skip_one_line(s, p1)
    IN  skip_empty_line(s, p2)

\* parse_footer: tuple((skip_empty_line, skip_one_line, skip_empty_line,
\* skip_empty_line)).
parse_footer(s, p) ==
    LET p1 == skip_empty_line(s, p)
        p2 == skip_one_line(s, p1)
        p3 == skip_empty_line(s, p2)
    IN  skip_empty_line(s, p3)

---------------------------------------------------------------------------
(* Header parsers.                                                         *)

\* parse_crispr_order_and_coordinates: "CRISPR n<ws>Range: A - B" gives
\* (n - 1, A - 1, B).
parse_crispr_order_and_coordinates(checks, s, p) ==
    LET p1 == Tag(s, p, <<"C", "R", "I", "S", "P", "R">>)
        p2 == Char(s, p1, " ")
        p3 == Digit1(s, p2)
        p4 == Multispace1(s, p3)
        p5 == Tag(s, p4, <<"R", "a", "n", "g", "e", ":">>)
        p6 == Char(s, p5, " ")
        p7 == Digit1(s, p6)
        p8 == Tag(s, p7, <<" ", "-", " ">>)
        p9 == Digit1(s, p8)
        raw_order == ParseUsize(Slice(s, p2, p3))
        order == USub(checks, raw_order, 1)
        raw_start == ParseUsize(Slice(s, p6, p7))
        start == USub(checks, raw_start, 1)
        end == ParseUsize(Slice(s, p8, p9))
    IN  IF ~Matched(p9) THEN Error
        ELSE IF raw_order = ParseIntError \/ order = Overflow THEN Panic
        ELSE IF raw_start = ParseIntError \/ start = Overflow THEN Panic
        ELSE IF end = ParseIntError THEN Panic
        ELSE Ok(p9, <<order, start, end>>)

\* parse_accession_line: "Sequence '<accession>' (<bp> bp)" gives
\* (accession, bp).
parse_accession_line(s, p) ==
    LET p1 == Tag(s, p, <<"S", "e", "q", "u", "e", "n", "c", "e", " ", "'">>)
        p2 == TakeUntil(s, p1, <<"'">>)
        p3 == Tag(s, p2, <<"'">>)
        p4 == Char(s, p3, " ")
        p5 == Tag(s, p4, <<"(">>)
        p6 == TakeUntil(s, p5, <<" ">>)
        p7 == Tag(s, p6, <<" ", "b", "p", ")">>)
        bp == ParseUsize(Slice(s, p5, p6))
    IN  IF ~Matched(p7) THEN Error
        ELSE IF bp = ParseIntError THEN Panic
        ELSE Ok(p7, <<Slice(s, p1, p2), bp>>)

---------------------------------------------------------------------------
(* Repeat/spacer rows.                                                     *)

\* parse_repeat_only: digit1, multispace1, alpha1, multispace1.
parse_repeat_only(checks, s, p) ==
    LET p1 == Digit1(s, p)
        p2 == Multispace1(s, p1)
        p3 == Alpha1(s, p2)
        p4 == Multispace1(s, p3)
        raw_start == ParseUsize(Slice(s, p, p1))
        start == USub(checks, raw_start, 1)
        repeat == Slice(s, p2, p3)
        end == UAdd(checks, start, Len(repeat))
    IN  IF ~Matched(p4) THEN Error
        ELSE IF raw_start = ParseIntError \/ start = Overflow THEN Panic
        ELSE IF end = Overflow THEN Panic
        ELSE Ok(p4, [tag |-> "WithoutSpacer", repeat |-> repeat,
                     start |-> start, end |-> end])

\* parse_repeat_with_spacer: digit1, multispace1, alpha1, multispace1,
\* alpha1, not_line_ending, line_ending.
parse_repeat_with_spacer(checks, s, p) ==
    LET p1 == Digit1(s, p)
        p2 == Multispace1(s, p1)
        p3 == Alpha1(s, p2)
        p4 == Multispace1(s, p3)
        p5 == Alpha1(s, p4)
        p6 == NotLineEnding(s, p5)
        p7 == LineEnding(s, p6)
        raw_start == ParseUsize(Slice(s, p, p1))
        start == USub(checks, raw_start, 1)
        repeat == Slice(s, p2, p3)
        spacer == Slice(s, p4, p5)
        repeat_end == UAdd(checks, start, Len(repeat))
        end == UAdd(checks, repeat_end, Len(spacer))
    IN  IF ~Matched(p7) THEN Error
        ELSE IF raw_start = ParseIntError \/ start = Overflow THEN Panic
        ELSE IF repeat_end = Overflow \/ end = Overflow THEN Panic
        ELSE Ok(p7, [tag |-> "WithSpacer", repeat |-> repeat,
                     spacer |-> spacer, start |-> start, end |-> end,
                     repeat_start |-> start, repeat_end |-> repeat_end,
                     spacer_start |-> repeat_end, spacer_end |-> end])

\* parse_repeat_spacer_line handing back its input instead of the remainder.
parse_repeat_spacer_line_peek(checks, s, p) ==
    LET first == parse_repeat_with_spacer(checks, s, p)
        r == IF first.kind = "Error" THEN parse_repeat_only(checks, s, p)
             ELSE first
    IN  IF r.kind = "Ok" THEN Ok(p, r.val) ELSE r

\* parse_repeat_spacer_line trying the terminal form from behind the digits
\* the two-sequence form had read, instead of from the row's beginning.
parse_repeat_spacer_line_no_rewind(checks, s, p) ==
    LET first == parse_repeat_with_spacer(checks, s, p)
    IN  IF first.kind = "Error"
        THEN parse_repeat_only(checks, s, Digit1(s, p))
        ELSE first

\* parse_repeat_spacer_line: alt((parse_repeat_with_spacer,
\* parse_repeat_only)); the second runs, on the same input, only when the
\* first returned Err::Error.
parse_repeat_spacer_line(checks, s, p) ==
    LET first == parse_repeat_with_spacer(checks, s, p)
    IN  IF first.kind = "Error" THEN parse_repeat_only(checks, s, p)
        ELSE first

---------------------------------------------------------------------------
(* parse, one loop iteration at a time.                                    *)
(*                                                                         *)
(* parse is many0(parse_contig_arrays); parse_contig_arrays holds          *)
(* many1(parse_array), and parse_array holds                               *)
(* many1(parse_repeat_spacer_line).  many0 and many1 end their loop, with  *)
(* what they collected, when the inner parser returns Err::Error; many1    *)
(* returns Err::Error when its first attempt does.                         *)

\* The head of parse_contig_arrays: parse_accession_line, skip_empty_line.
contig_head(s, p) ==
    LET a == parse_accession_line(s, p)
        p1 == skip_empty_line(s, a.pos)
    IN  IF a.kind # "Ok" THEN a
        ELSE IF ~Matched(p1) THEN Error
        ELSE Ok(p1, a.val)

\* The head of parse_array: skip_empty_line,
\* parse_crispr_order_and_coordinates, skip_empty_line, skip_one_line,
\* skip_one_line.
array_head(checks, s, p) ==
    LET p1 == skip_empty_line(s, p)
        h == IF Matched(p1) THEN parse_crispr_order_and_coordinates(checks, s, p1)
             ELSE Error
        p2 == skip_empty_line(s, h.pos)
        p3 == skip_one_line(s, p2)
        p4 == skip_one_line(s, p3)
    IN  IF h.kind # "Ok" THEN h
        ELSE IF ~Matched(p4) THEN Error
        ELSE Ok(p4, h.val)

\* The tail of parse_array: skip_one_line, skip_one_line.
array_tail(s, p) ==
    LET p1 == skip_one_line(s, p)
    IN  skip_one_line(s, p1)

Contig(a, arrs) == [accession |-> a[1], bp |-> a[2], arrays |-> arrs]

Array(h, rs) ==
    [order |-> h[1], start |-> h[2], end |-> h[3], repeat_spacers |-> rs]

\* parse's match on the result of many0: Ok((_, contigs)) => Ok(contigs).
Returned(cs) == [tag |-> "Ok", contigs |-> cs]
\* Err(e) => Err(e).
Failed == [tag |-> "Err"]
\* No value: the call has not returned (or panicked).
None == [tag |-> "None"]

\* many0's rule in many1's place: Err::Error always just ends the loop.
many0_fails(collected) == FALSE

\* many1: Err::Error from the parser's first run is many1's own; from a
\* later run it ends the loop.
many1_fails(collected) == collected = <<>>

\* parse_contig_arrays returned Err::Error: many0 hands back what it
\* collected and the cursor at which this contig began.
ContigError ==
    /\ pc' = "done"
    /\ pos' = contig_start
    /\ result' = Returned(contigs)
    /\ UNCHANGED <<contigs, contig_start, acc, arrays, array_start, hdr, rows,
                   iters>>

\* parse_array returned Err::Error: the first time, many1 and with it
\* parse_contig_arrays fail; later, many1 hands back the arrays collected and
\* the cursor at which this array began, and the footer follows.
ArrayError ==
    IF many1_fails(arrays) THEN ContigError
    ELSE /\ pc' = "footer"
         /\ pos' = array_start
         /\ UNCHANGED <<contigs, contig_start, acc, arrays, array_start, hdr,
                        rows, iters, result>>

\* An unwrap() or an overflow check panicked: parse returns nothing.
Abort ==
    /\ pc' = "abort"
    /\ UNCHANGED <<pos, contigs, contig_start, acc, arrays, array_start, hdr,
                   rows, iters, result>>

\* One pass of many0's loop enters parse_contig_arrays at the cursor.
ContigStep ==
    /\ pc = "contig"
    /\ LET r == contig_head(input, pos)
       IN  CASE r.kind = "Panic" -> Abort
             [] r.kind = "Error" ->
                  /\ pc' = "done"
                  /\ result' = Returned(contigs)
                  /\ UNCHANGED <<pos, contigs, contig_start, acc, arrays,
                                 array_start, hdr, rows, iters>>
             [] r.kind = "Ok" ->
                  /\ pc' = "array"
                  /\ pos' = r.pos
                  /\ contig_start' = pos
                  /\ acc' = r.val
                  /\ arrays' = <<>>
                  /\ array_start' = r.pos
                  /\ UNCHANGED <<contigs, hdr, rows, iters, result>>
    /\ UNCHANGED <<input, overflow_checks, given, out>>

\* One pass of many1(parse_array) enters parse_array at the cursor.
ArrayStep ==
    /\ pc = "array"
    /\ LET r == array_head(overflow_checks, input, pos)
       IN  CASE r.kind = "Panic" -> Abort
             [] r.kind = "Error" -> ArrayError
             [] r.kind = "Ok" ->
                  /\ pc' = "row"
                  /\ pos' = r.pos
                  /\ array_start' = pos
                  /\ hdr' = r.val
                  /\ rows' = <<>>
                  /\ UNCHANGED <<contigs, contig_start, acc, arrays, iters,
                                 result>>
    /\ UNCHANGED <<input, overflow_checks, given, out>>

\* One pass of many1(parse_repeat_spacer_line).
RowStep ==
    /\ pc = "row"
    /\ LET r == parse_repeat_spacer_line(overflow_checks, input, pos)
       IN  CASE r.kind = "Panic" -> Abort
             [] r.kind = "Error" ->
                  IF many1_fails(rows) THEN ArrayError
                  ELSE /\ pc' = "array_end"
                       /\ UNCHANGED <<pos, contigs, contig_start, acc, arrays,
                                      array_start, hdr, rows, iters, result>>
             [] r.kind = "Ok" ->
                  \* many1's guard against a parser that consumed nothing
                  IF r.pos = pos /\ rows # <<>> THEN ArrayError
                  ELSE /\ pos' = r.pos
                       /\ rows' = Append(rows, r.val)
                       /\ iters' = iters + 1
                       /\ UNCHANGED <<pc, contigs, contig_start, acc, arrays,
                                      array_start, hdr, result>>
    /\ UNCHANGED <<input, overflow_checks, given, out>>

\* The rows are collected: the two closing lines of parse_array, and the
\* Array is pushed by many1(parse_array).
ArrayEnd ==
    /\ pc = "array_end"
    /\ LET p1 == array_tail(input, pos)
       IN  IF ~Matched(p1) THEN ArrayError
           \* many1's guard against a parser that consumed nothing
           ELSE IF p1 = array_start /\ arrays # <<>> THEN ContigError
           ELSE /\ pc' = "array"
                /\ pos' = p1
                /\ arrays' = Append(arrays, Array(hdr, rows))
                /\ array_start' = p1
                /\ iters' = iters + 1
                /\ UNCHANGED <<contigs, contig_start, acc, hdr, rows, result>>
    /\ UNCHANGED <<input, overflow_checks, given, out>>

\* The arrays are collected: parse_footer, and the Contig is pushed by
\* many0.
FooterStep ==
    /\ pc = "footer"
    /\ LET p1 == parse_footer(input, pos)
       IN  IF ~Matched(p1) THEN ContigError
           \* many0's guard against a parser that consumed nothing
           ELSE IF p1 = contig_start THEN
                /\ pc' = "done"
                /\ result' = Failed
                /\ UNCHANGED <<pos, contigs, contig_start, acc, arrays,
                               array_start, hdr, rows, iters>>
           ELSE /\ pc' = "contig"
                /\ pos' = p1
                /\ contigs' = Append(contigs, Contig(acc, arrays))
                /\ contig_start' = p1
                /\ iters' = iters + 1
                /\ UNCHANGED <<acc, arrays, array_start, hdr, rows, result>>
    /\ UNCHANGED <<input, overflow_checks, given, out>>

---------------------------------------------------------------------------
(* The reports the parser is run on, as in the tests: a report is written  *)
(* out from its contigs, arrays and rows, the way MinCED prints them.      *)

RECURSIVE Cat(_)
Cat(ss) == IF ss = <<>> THEN <<>> ELSE Head(ss) \o Cat(Tail(ss))

\* The decimal numeral of n.
RECURSIVE ToDigits(_)
ToDigits(n) ==
    IF n < 10 THEN <<Digits[n + 1]>>
    ELSE ToDigits(n \div 10) \o <<Digits[(n % 10) + 1]>>

NL == <<"\n">>
TAB == <<"\t">>

\* A data row: position, repeat and, unless it is the row of a last repeat,
\* spacer and the bracketed lengths.  `position` is a numeral.
RowLine(r) ==
    r.position \o TAB \o TAB \o r.repeat \o TAB
      \o (IF r.spacer # <<>>
          THEN r.spacer \o TAB \o <<"[", " ">> \o ToDigits(Len(r.repeat))
                 \o <<",", " ">> \o ToDigits(Len(r.spacer)) \o <<" ", "]">>
          ELSE <<>>)
      \o NL

HeaderLine(a) ==
    <<"C", "R", "I", "S", "P", "R", " ">> \o a.n \o <<" ", " ", " ">>
      \o <<"R", "a", "n", "g", "e", ":", " ">> \o a.from
      \o <<" ", "-", " ">> \o a.to \o NL

TitlesLine == <<"P", "O", "S", "I", "T", "I", "O", "N", "\t", "R", "E", "P",
                "E", "A", "T", "\t", "S", "P", "A", "C", "E", "R">> \o NL

RuleLine == <<"-", "-", "-", "-", "\t", "-", "-", "-", "-">> \o NL

SummaryLine(a) ==
    <<"R", "e", "p", "e", "a", "t", "s", ":", " ">> \o ToDigits(Len(a.rows))
      \o NL

\* An array: a blank line, the range header, the column titles, a rule, the
\* rows, a rule and the summary.
ArrayBlock(a) ==
    NL \o HeaderLine(a) \o TitlesLine \o RuleLine
       \o Cat([i \in 1..Len(a.rows) |-> RowLine(a.rows[i])])
       \o RuleLine \o SummaryLine(a)
       \o (IF a.quirk = "summary_twice" THEN SummaryLine(a) ELSE <<>>)

AccessionLine(c) ==
    <<"S", "e", "q", "u", "e", "n", "c", "e", " ", "'">> \o c.accession
      \o (IF c.quirk = "no_closing_quote" THEN <<>> ELSE <<"'">>)
      \o <<" ", "(">> \o c.bp \o <<" ", "b", "p", ")">> \o NL

TimeLine == <<"T", "i", "m", "e", ":", " ", "3", " ", "m", "s">> \o NL

\* A contig: the accession line, its arrays, and the four lines that close
\* it (blank, the time taken, blank, blank).
ContigBlock(c) ==
    AccessionLine(c)
      \o Cat([i \in 1..Len(c.arrays) |-> ArrayBlock(c.arrays[i])])
      \o NL \o TimeLine \o NL \o NL

\* A row at 1-based position P; an empty spacer makes it a last repeat.
Row(P, repeat, spacer) ==
    [P |-> P, position |-> ToDigits(P), repeat |-> repeat, spacer |-> spacer]

\* "CRISPR n   Range: A - B" over the rows.
Arr(n, A, B, rs) ==
    [n |-> ToDigits(n), from |-> ToDigits(A), to |-> ToDigits(B),
     N |-> n, A |-> A, B |-> B, rows |-> rs, quirk |-> "none"]

\* "Sequence '<accession>' (<bp> bp)" over the arrays.
Ctg(accession, bp, arrs) ==
    [accession |-> accession, bp |-> ToDigits(bp), BP |-> bp, arrays |-> arrs,
     quirk |-> "none"]

RowAC_G == Row(1, <<"A", "C">>, <<"G">>)
RowAC == Row(4, <<"A", "C">>, <<>>)
RowA_CG == Row(7, <<"A">>, <<"C", "G">>)
RowACG == Row(10, <<"A", "C", "G">>, <<>>)

Array1 == Arr(1, 1, 5, <<RowAC_G, RowAC>>)
Array2 == Arr(2, 7, 12, <<RowA_CG, RowACG>>)

\* The contig blocks reports are put together from: conforming ones, and
\* ones that deviate from the layout in one place.
ContigChoices ==
    { Ctg(<<"X">>, 9, <<Array1>>),
      Ctg(<<"Y", "_", "2">>, 14, <<Array1, Array2>>),
      \* no row of a last repeat
      Ctg(<<"L">>, 3, <<Arr(1, 1, 3, <<RowAC_G>>)>>),
      \* a row of a last repeat, then a row with a spacer
      Ctg(<<"F">>, 6, <<Arr(1, 4, 9, <<RowAC, RowA_CG>>)>>),
      \* the accession's closing quote is missing
      [Ctg(<<"Q">>, 9, <<Array1>>) EXCEPT !.quirk = "no_closing_quote"],
      \* the summary line is printed twice
      Ctg(<<"S">>, 9, <<[Array1 EXCEPT !.quirk = "summary_twice"]>>),
      \* an array without rows, and a contig without arrays
      Ctg(<<"E">>, 9, <<Arr(1, 1, 5, <<>>)>>),
      Ctg(<<"N">>, 9, <<>>),
      \* a row without a digit run
      Ctg(<<"D">>, 9,
          <<Arr(1, 1, 5, <<RowAC_G, [RowAC EXCEPT !.position = <<>>]>>)>>),
      \* position 0
      Ctg(<<"Z">>, 9, <<Arr(1, 1, 2, <<Row(0, <<"A", "C">>, <<>>)>>)>>),
      \* a row that ends beyond usize::MAX
      Ctg(<<"O">>, 9,
          <<Arr(1, 1, 5, <<Row(UsizeMax, <<"A", "C">>, <<"G">>)>>)>>),
      \* a length that is no number, and one beyond usize::MAX
      [Ctg(<<"B">>, 9, <<Array1>>) EXCEPT !.bp = <<"a", "b", "c">>],
      Ctg(<<"H">>, UsizeMax + 1, <<Array1>>),
      \* text that is no contig
      [Ctg(<<"J">>, 9, <<>>) EXCEPT !.quirk = "junk"] }

Junk == <<"j", "u", "n", "k">> \o NL

Reports ==
    UNION { [1..k -> ContigChoices] : k \in 0..MaxContigs }

Text(doc) ==
    Cat([i \in 1..Len(doc) |->
           IF doc[i].quirk = "junk" THEN Junk ELSE ContigBlock(doc[i])])

---------------------------------------------------------------------------
(* Running parse on a report.                                              *)

Init ==
    /\ given \in Reports
    /\ input = Text(given)
    /\ overflow_checks \in BOOLEAN
    /\ pc = "contig"
    /\ pos = 1
    /\ contigs = <<>>
    /\ contig_start = 1
    /\ acc = <<>>
    /\ arrays = <<>>
    /\ array_start = 1
    /\ hdr = <<>>
    /\ rows = <<>>
    /\ iters = 0
    /\ result = None
    /\ out = None

Next == ContigStep \/ ArrayStep \/ RowStep \/ ArrayEnd \/ FooterStep

Spec == Init /\ [][Next]_vars

---------------------------------------------------------------------------
(* Running one grammar function on one line, as the unit tests do.         *)

\* A data row, with what follows it in the buffer.
RowInputs ==
    [fn : {"row"},
     P : {0, 1, 2, UsizeMax - 2, UsizeMax, UsizeMax + 1},
     gap : {TAB \o TAB, <<" ">>},
     repeat : {<<"A">>, <<"A", "c">>},
     spacer : {<<>>, <<"G">>, <<"g", "T">>},
     rest : {<<>>, TAB \o <<"[", " ", "2", " ", "]">>},
     eol : {NL, <<"\r", "\n">>},
     after : {<<>>, NL, RuleLine, <<"R", "e", "p", ":", " ", "2">> \o NL}]

RowText(g) ==
    ToDigits(g.P) \o g.gap \o g.repeat
      \o (IF g.spacer # <<>> THEN g.gap \o g.spacer \o g.rest
          ELSE IF g.rest # <<>> THEN TAB ELSE <<>>)
      \o g.eol \o g.after

\* An array header.
HeaderInputs ==
    [fn : {"header"},
     n : {0, 1, 4, UsizeMax + 1},
     A : {0, 1, 3, UsizeMax + 1},
     B : {3, UsizeMax, UsizeMax + 1},
     gap : {<<" ", " ", " ">>, TAB},
     dash : {<<" ", "-", " ">>, <<"-">>},
     after : {<<>>, NL}]

HeaderText(g) ==
    <<"C", "R", "I", "S", "P", "R", " ">> \o ToDigits(g.n) \o g.gap
      \o <<"R", "a", "n", "g", "e", ":", " ">> \o ToDigits(g.A) \o g.dash
      \o ToDigits(g.B) \o g.after

\* An accession line.
AccessionInputs ==
    [fn : {"accession"},
     accession : {<<>>, <<"X">>, <<"M", "G", " ", "(", "_", "3", "8">>},
     quote : {<<"'">>, <<>>},
     bp : {<<>>, <<"7">>, <<"1", "2">>, <<"a", "b", "c">>, <<"+", "5">>,
           <<"-", "1">>, <<"1", ".", "5">>, ToDigits(UsizeMax),
           ToDigits(UsizeMax + 1)},
     after : {<<>>, NL}]

AccessionText(g) ==
    <<"S", "e", "q", "u", "e", "n", "c", "e", " ", "'">> \o g.accession
      \o g.quote \o <<" ", "(">> \o g.bp \o <<" ", "b", "p", ")">> \o g.after

UnitInit ==
    /\ given \in RowInputs \cup HeaderInputs \cup AccessionInputs
    /\ input = CASE given.fn = "row" -> RowText(given)
                 [] given.fn = "header" -> HeaderText(given)
                 [] given.fn = "accession" -> AccessionText(given)
    /\ overflow_checks \in BOOLEAN
    /\ pc = "call"
    /\ pos = 1
    /\ contigs = <<>>
    /\ contig_start = 1
    /\ acc = <<>>
    /\ arrays = <<>>
    /\ array_start = 1
    /\ hdr = <<>>
    /\ rows = <<>>
    /\ iters = 0
    /\ result = None
    /\ out = None

Idle == <<input, overflow_checks, given, pos, contigs, contig_start, acc,
          arrays, array_start, hdr, rows, iters, result>>

CallRow ==
    /\ pc = "call" /\ given.fn = "row"
    /\ out' = parse_repeat_spacer_line(overflow_checks, input, 1)
    /\ pc' = "returned"
    /\ UNCHANGED Idle

CallHeader ==
    /\ pc = "call" /\ given.fn = "header"
    /\ out' = parse_crispr_order_and_coordinates(overflow_checks, input, 1)
    /\ pc' = "returned"
    /\ UNCHANGED Idle

CallAccession ==
    /\ pc = "call" /\ given.fn = "accession"
    /\ out' = parse_accession_line(input, 1)
    /\ pc' = "returned"
    /\ UNCHANGED Idle

UnitNext == CallRow \/ CallHeader \/ CallAccession

UnitSpec == UnitInit /\ [][UnitNext]_vars

---------------------------------------------------------------------------
(* Claims about parse.                                                     *)

Finished == pc \in {"done", "abort"}

\* C1: parse is all-or-nothing: it returns Ok(list) only if the contig loop
\* consumed the whole buffer; malformed or left-over text gives the error
\* result, never an Ok list of the contigs parsed before the mismatch.
C1_AllOrNothing ==
    (pc = "done" /\ result.tag = "Ok") => pos = Len(input) + 1

\* A row as the report states it: a numeral from 1 up, and letters.
WellFormedRow(r) ==
    /\ r.P >= 1 /\ r.position = ToDigits(r.P)
    /\ r.repeat # <<>>

WellFormedArray(a) ==
    /\ a.quirk = "none"
    /\ a.N >= 1 /\ a.n = ToDigits(a.N)
    /\ a.A >= 1 /\ a.from = ToDigits(a.A)
    /\ a.to = ToDigits(a.B)
    /\ a.rows # <<>>
    /\ \A i \in 1..Len(a.rows) : WellFormedRow(a.rows[i])

WellFormedContig(c) ==
    /\ c.quirk = "none"
    /\ c.bp = ToDigits(c.BP)
    /\ c.arrays # <<>>
    /\ \A i \in 1..Len(c.arrays) : WellFormedArray(c.arrays[i])

WellFormedReport(doc) == \A i \in 1..Len(doc) : WellFormedContig(doc[i])

\* Every number of the report, and the end of every row, is a usize.
RowFits(r) == r.P - 1 + Len(r.repeat) + Len(r.spacer) <= UsizeMax

ReportFits(doc) ==
    \A i \in 1..Len(doc) :
        /\ doc[i].BP <= UsizeMax
        /\ \A j \in 1..Len(doc[i].arrays) :
             LET a == doc[i].arrays[j]
             IN  /\ a.N <= UsizeMax /\ a.A <= UsizeMax /\ a.B <= UsizeMax
                 /\ \A k \in 1..Len(a.rows) : RowFits(a.rows[k])

\* The record holds the array a of the report: its header and its rows'
\* sequences, in order.
HoldsArray(rec, a) ==
    /\ rec.order = a.N - 1 /\ rec.start = a.A - 1 /\ rec.end = a.B
    /\ Len(rec.repeat_spacers) = Len(a.rows)
    /\ \A k \in 1..Len(a.rows) :
         /\ rec.repeat_spacers[k].repeat = a.rows[k].repeat
         /\ rec.repeat_spacers[k].tag =
              (IF a.rows[k].spacer = <<>> THEN "WithoutSpacer" ELSE "WithSpacer")
         /\ a.rows[k].spacer # <<>> =>
              rec.repeat_spacers[k].spacer = a.rows[k].spacer

HoldsContig(rec, c) ==
    /\ rec.accession = c.accession /\ rec.bp = c.BP
    /\ Len(rec.arrays) = Len(c.arrays)
    /\ \A j \in 1..Len(c.arrays) : HoldsArray(rec.arrays[j], c.arrays[j])

\* parse returned Ok with one Contig per block of the report, in order.
ReturnedAll(doc) ==
    /\ pc = "done" /\ result.tag = "Ok"
    /\ Len(result.contigs) = Len(doc)
    /\ \A i \in 1..Len(doc) : HoldsContig(result.contigs[i], doc[i])

\* C2, as stated: for the concatenation of k >= 0 well-formed contig blocks
\* parse returns Ok with exactly k Contig records in document order, each
\* with its own accession, bp and arrays; for no block, Ok with no record.
C2_AllContigs_AsStated ==
    (Finished /\ WellFormedReport(given)) => ReturnedAll(given)

\* C2, amended: the same, for reports whose numbers and row ends are at most
\* usize::MAX.
C2_AllContigs ==
    (Finished /\ WellFormedReport(given) /\ ReportFits(given))
        => ReturnedAll(given)

\* C2's case: two conforming blocks, the first with two arrays, were parsed.
C2_Witness ==
    /\ Finished /\ WellFormedReport(given) /\ ReportFits(given)
    /\ Len(given) = MaxContigs
    /\ Len(given[1].arrays) = 2
    /\ result.tag = "Ok" /\ Len(result.contigs) = MaxContigs

Elems(seq) == {seq[i] : i \in 1..Len(seq)}

\* Every Contig record parse_contig_arrays has returned, and every Array
\* record parse_array has returned.
ContigsBuilt ==
    Elems(contigs) \cup (IF result.tag = "Ok" THEN Elems(result.contigs) ELSE {})

ArraysBuilt == Elems(arrays) \cup UNION {Elems(c.arrays) : c \in ContigsBuilt}

\* C6: every Contig returned has at least one Array and every Array at least
\* one Repeat: an array block without data rows, or a contig block without
\* arrays, never produces a record.
C6_NonEmpty ==
    /\ \A c \in ContigsBuilt : c.arrays # <<>>
    /\ \A a \in ArraysBuilt : a.repeat_spacers # <<>>

\* C6's case: reports with a block without rows and a block without arrays
\* were parsed, and one with records was.
C6_Witness ==
    /\ pc = "done" /\ result.tag = "Ok" /\ Len(result.contigs) = 1
    /\ Len(given) = 2
    /\ given[2].arrays # <<>> /\ given[2].arrays[1].rows = <<>>

\* C7: in every Array parsed, a WithoutSpacer unit is always and only the
\* final element of the repeat list.
C7_LastOnly ==
    \A a \in ArraysBuilt :
        \A k \in 1..Len(a.repeat_spacers) :
            (a.repeat_spacers[k].tag = "WithoutSpacer")
                <=> (k = Len(a.repeat_spacers))

C11_OrderedChoice ==
    [][/\ pc = "row" =>
            LET first == parse_repeat_with_spacer(overflow_checks, input, pos)
                second == parse_repeat_only(overflow_checks, input, pos)
            IN  /\ first.kind = "Ok" =>
                      /\ pc' = "row" /\ pos' = first.pos
                      /\ rows' = Append(rows, first.val)
                /\ (first.kind = "Error" /\ second.kind = "Ok") =>
                      /\ pc' = "row" /\ pos' = second.pos
                      /\ rows' = Append(rows, second.val)
                      /\ second.val.tag = "WithoutSpacer"
                /\ (first.kind = "Error" /\ second.kind = "Error"
                      /\ rows # <<>>) =>
                      /\ pc' = "array_end" /\ pos' = pos /\ rows' = rows
       /\ (pc = "array_end" /\ pc' = "array") =>
            /\ pos' = skip_one_line(input, skip_one_line(input, pos))
            /\ arrays' = Append(arrays, Array(hdr, rows))
      ]_vars

\* C11's case: after a two-sequence row, a terminal row was taken by the
\* fallback, both forms then failed on the divider, and the divider and the
\* summary were matched from the cursor before it: the array holds both rows.
C11_Witness ==
    /\ pc = "array" /\ arrays # <<>>
    /\ Len(arrays[Len(arrays)].repeat_spacers) = 2
    /\ arrays[Len(arrays)].repeat_spacers[1].tag = "WithSpacer"
    /\ arrays[Len(arrays)].repeat_spacers[2].tag = "WithoutSpacer"

---------------------------------------------------------------------------
(* Claims about the grammar functions.                                     *)

RowCalled == pc = "returned" /\ given.fn = "row"

\* The two-sequence row of `given` ends at most at usize::MAX.
GivenRowFits ==
    given.P - 1 + Len(given.repeat) + Len(given.spacer) <= UsizeMax

\* The WithSpacer record C3 states for the row P, repeat, spacer.
WithSpacerOf(P, repeat, spacer) ==
    [tag |-> "WithSpacer", repeat |-> repeat, spacer |-> spacer,
     start |-> P - 1, repeat_start |-> P - 1,
     repeat_end |-> P - 1 + Len(repeat),
     spacer_start |-> P - 1 + Len(repeat),
     spacer_end |-> P - 1 + Len(repeat) + Len(spacer),
     end |-> P - 1 + Len(repeat) + Len(spacer)]

IsWithSpacer(o) == o.kind = "Ok" /\ o.val.tag = "WithSpacer"

\* C3, as stated: for every two-sequence row with position P >= 1, repeat
\* length R and spacer length S, parse_repeat_spacer_line yields WithSpacer
\* with start = repeat_start = P-1, repeat_end = spacer_start = P-1+R,
\* spacer_end = end = P-1+R+S, so that spacer_start = repeat_end and
\* start <= repeat_end <= end.
C3_WithSpacer_AsStated ==
    (RowCalled /\ given.P >= 1 /\ given.spacer # <<>>) =>
        /\ out.kind = "Ok"
        /\ out.val = WithSpacerOf(given.P, given.repeat, given.spacer)
        /\ out.val.spacer_start = out.val.repeat_end
        /\ out.val.start <= out.val.repeat_end
        /\ out.val.repeat_end <= out.val.end

\* C3, amended: the same for the rows with P - 1 + R + S at most usize::MAX;
\* spacer_start = repeat_end holds for every WithSpacer record produced, and
\* start <= repeat_end <= end for those produced from such rows.
C3_WithSpacer ==
    RowCalled =>
        /\ (given.P >= 1 /\ given.spacer # <<>> /\ GivenRowFits) =>
              /\ out.kind = "Ok"
              /\ out.val = WithSpacerOf(given.P, given.repeat, given.spacer)
              /\ out.val.start <= out.val.repeat_end
              /\ out.val.repeat_end <= out.val.end
        /\ IsWithSpacer(out) => out.val.spacer_start = out.val.repeat_end

\* C3's case: a two-sequence row with P > 1 and its bracketed lengths was
\* parsed.
C3_Witness ==
    /\ RowCalled /\ given.P > 1 /\ Len(given.spacer) = 2 /\ given.rest # <<>>
    /\ GivenRowFits /\ IsWithSpacer(out)

\* C4, for the rows that end at most at usize::MAX: for every terminal row
\* with position P >= 1 and repeat length R, parse_repeat_spacer_line yields
\* WithoutSpacer with start = P-1 and end = start + R, without spacer fields.
C4_WithoutSpacer ==
    (RowCalled /\ given.P >= 1 /\ given.spacer = <<>> /\ GivenRowFits) =>
        /\ out.kind = "Ok"
        /\ out.val = [tag |-> "WithoutSpacer", repeat |-> given.repeat,
                      start |-> given.P - 1,
                      end |-> given.P - 1 + Len(given.repeat)]

\* The cursor just behind the terminator of the row's own line.
RowLineEnd(g) == Len(RowText(g)) - Len(g.after) + 1

\* C12, for the rows with P >= 1 that end at most at usize::MAX: every
\* successfully parsed row is exactly one line of input: its repeat and (for
\* WithSpacer) spacer are the runs of that line, the row consumes the input
\* through that line's terminator and no further, and a line with one
\* alphabetic run is parsed as WithoutSpacer whatever the next line holds.
C12_OneLine ==
    (RowCalled /\ given.P >= 1 /\ GivenRowFits /\ out.kind = "Ok") =>
        /\ out.pos = RowLineEnd(given)
        /\ out.val.repeat = given.repeat
        /\ given.spacer = <<>> => out.val.tag = "WithoutSpacer"
        /\ given.spacer # <<>> =>
              out.val.tag = "WithSpacer" /\ out.val.spacer = given.spacer

HeaderCalled == pc = "returned" /\ given.fn = "header"

\* The header of `given` has the literal tokens of "CRISPR n   Range: A - B".
GivenHeaderWellFormed == given.dash = <<" ", "-", " ">>

\* C5, as stated: for every array header with n >= 1 and A >= 1,
\* parse_crispr_order_and_coordinates returns (n-1, A-1, B), and start < end
\* whenever A < B.
C5_Header_AsStated ==
    (HeaderCalled /\ GivenHeaderWellFormed /\ given.n >= 1 /\ given.A >= 1) =>
        /\ out.kind = "Ok"
        /\ out.val = <<given.n - 1, given.A - 1, given.B>>
        /\ given.A < given.B => out.val[2] < out.val[3]

\* C5, amended: the same for the headers whose n, A and B are at most
\* usize::MAX.
C5_Header ==
    (/\ HeaderCalled /\ GivenHeaderWellFormed /\ given.n >= 1 /\ given.A >= 1
     /\ given.n <= UsizeMax /\ given.A <= UsizeMax /\ given.B <= UsizeMax) =>
        /\ out.kind = "Ok"
        /\ out.val = <<given.n - 1, given.A - 1, given.B>>
        /\ given.A < given.B => out.val[2] < out.val[3]

\* C5's case: "CRISPR 4" with a range from 3 was parsed: order 3, start 2.
C5_Witness ==
    /\ HeaderCalled /\ GivenHeaderWellFormed /\ given.n = 4 /\ given.A = 3
    /\ given.B = UsizeMax
    /\ out.kind = "Ok" /\ out.val[1] = 3

AccessionCalled == pc = "returned" /\ given.fn = "accession"

IsDigitRun(t) == t # <<>> /\ \A i \in 1..Len(t) : IsDigit(t[i])

\* C9: parse_accession_line fails with the grammar-mismatch error, and does
\* not abort, whenever the text between "(" and " bp)" is not a non-empty
\* digit run; on success it returns the accession, the text up to the next
\* "'", and the value of the digit run.
C9_Accession ==
    AccessionCalled =>
        /\ ~IsDigitRun(given.bp) => out.kind = "Error"
        /\ out.kind = "Ok" =>
              /\ out.val[1] = given.accession
              /\ IsDigitRun(given.bp) /\ ToDigits(out.val[2]) = given.bp

\* C10: when the 1-based n, A or P is 0, the decrement is unchecked: the
\* parser aborts, or the value wraps to 2^w - 1; it does not return the
\* grammar-mismatch error, nor a record with another order or start.
C10_ZeroUnderflow ==
    /\ (HeaderCalled /\ GivenHeaderWellFormed /\ given.n = 0) =>
          /\ out.kind # "Error"
          /\ overflow_checks => out.kind = "Panic"
          /\ out.kind = "Ok" => out.val[1] = 2 ^ UsizeBits - 1
    /\ (HeaderCalled /\ GivenHeaderWellFormed /\ given.A = 0) =>
          /\ out.kind # "Error"
          /\ overflow_checks => out.kind = "Panic"
          /\ out.kind = "Ok" => out.val[2] = 2 ^ UsizeBits - 1
    /\ (RowCalled /\ given.P = 0) =>
          /\ out.kind # "Error"
          /\ overflow_checks => out.kind = "Panic"
          /\ out.kind = "Ok" => out.val.start = 2 ^ UsizeBits - 1

\* C10's case: "CRISPR 0" was parsed where overflow wraps, and the order is
\* usize::MAX.
C10_Witness ==
    /\ HeaderCalled /\ GivenHeaderWellFormed /\ given.n = 0 /\ given.A = 1
    /\ ~overflow_checks /\ out.kind = "Ok" /\ out.val[1] = UsizeMax

=============================================================================
